---- MODULE Spec2Model ----
(***************************************************************************)
(* TranscribeWatcher (src/tools/transcribe_watcher.py): the watch ->       *)
(* debounce -> queue -> transcribe -> deliver pipeline.                    *)
(*                                                                         *)
(* Threads of one process run:                                             *)
(*   - the main thread: start() = reconciliation scan, observer start,     *)
(*     then the polling loop that runs _process_queue;                     *)
(*   - the observer's notification thread, running on_created;             *)
(*   - one threading.Timer thread per debounce timer, running              *)
(*     _add_to_queue after its wait.                                       *)
(* The environment writes, truncates and deletes audio files, lets time    *)
(* pass, interrupts the process (Ctrl+C) and starts it again.              *)
(***************************************************************************)
EXTENDS Integers, Sequences, FiniteSets, TLC

\* ------------------------------------------------------------------ bounds
Wavs == {"a.wav", "b.wav"}          \* audio files of the recordings directory
MaxTime == 3                        \* clock values 0..MaxTime (debounce)
MaxNotifs == 2                      \* creation notifications per process run
MaxFileOps == 1                     \* environment changes to audio files
MaxRuns == 2                        \* process starts
PipeMaxTime == 2                    \* clock values 0..PipeMaxTime (pipeline)
PipeMaxNotifs == 2                  \* creation notifications (pipeline)
BurstMaxTime == 4                   \* clock ticks (one burst)
BurstMaxNotifs == 2                 \* creation notifications (one burst)
StopMaxTime == 2                    \* clock values 0..StopMaxTime (stop and restart)
StopMaxNotifs == 2                  \* creation notifications per run (stop and restart)

\* ------------------------------------------------------- program constants
debounce_seconds == 2               \* config.get('watcher').get('debounce_seconds', 2)

VARIABLES
    audio,          \* [Wavs -> {"absent","empty","data"}]: the recordings directory
    transcripts,    \* set of transcript files present in transcripts_dir
    tmpfiles,       \* set of temporary mixed files present in the temp dir
    fileOps,        \* number of environment file changes so far
    now,            \* the clock
    config,         \* webhook section of the config: "disabled", "nourl", "url"
    stems,          \* [Wavs -> stem]: the name of each recording, without ".wav"
    run,            \* number of the current process start
    mainpc,         \* position of the main thread
    scanTodo,       \* entries of the glob listing not visited yet
    observing,      \* the observer thread dispatches events
    running,        \* TranscribeWatcher.running
    q,              \* TranscriptionQueue.queue: job ids, oldest first
    processing,     \* TranscriptionQueue.processing
    current_file,   \* TranscriptionQueue.current_file ("" = None)
    cur,            \* id of the job the loop holds (0 = none)
    processed_audio,\* what _premix_audio returned: "orig" or "mixed"
    premix,         \* what the _premix_audio call of the job did, kept while
                    \*   noScribe runs: probe result, mixer outcome, filter
    exc,            \* exception propagating out of _transcribe_file ("" = none)
    jobs,           \* every queue entry added in this run: id |-> record
                    \*   (late: added after the loop of start() was left)
    got,            \* ids returned by get() in this run, in order
    timers,         \* every Timer created in this run: id |-> record
                    \*   (deadline: end of its wait, 0 once the wait is over;
                    \*    hit: cancel() has been called on it)
    pending_files,  \* AudioFileHandler.pending_files: [Wavs -> timer id, 0 = no entry]
    hpc,            \* position of the notification thread inside on_created
    hpath,          \* the path on_created is handling
    notifs,         \* per path: notifications received in this run
    lastNotif,      \* per path: time of the latest notification
    burst,          \* per path: every notification came < D after the previous one
    scanned,        \* the listing the reconciliation scan of this run saw
    scanCount,      \* per path: entries in the queue when that scan ended
    prevScanned,    \* scanned, of the previous run
    prevCount,      \* scanCount, of the previous run
    prevFailed,     \* paths with a FailedLocal job in the previous run
    prevLate,       \* paths enqueued after stop() in the previous run
    recording,      \* AudioRecorder.recording
    audio_data,     \* AudioRecorder.audio_data: number of chunks held
    stream,         \* AudioRecorder.stream: "none" (None), "open" (created,
                    \*   not started), "active" (started, calling back)
    output_file,    \* AudioRecorder.output_file ("" = None)
    ret,            \* what the latest start() or stop() call returned
    starts,         \* start() calls that began a recording
    writes          \* sf.write calls made

vars == << audio, transcripts, tmpfiles, fileOps, now, config, stems, run,
           mainpc,
           scanTodo, observing, running, q, processing, current_file, cur,
           processed_audio, premix, exc, jobs, got, timers, pending_files,
           hpc, hpath, notifs, lastNotif, burst, scanned, scanCount,
           prevScanned, prevCount, prevFailed, prevLate,
           recording, audio_data, stream, output_file, ret, starts, writes >>

scanVars  == << scanned, scanCount, prevScanned, prevCount, prevFailed,
               prevLate >>
fsVars    == << audio, transcripts, tmpfiles, fileOps >>
mainVars  == << mainpc, scanTodo, running, processing, current_file, cur,
                processed_audio, premix, exc, got >>
timerVars == << timers, pending_files, hpc, hpath, notifs, lastNotif, burst >>
recVars   == << recording, audio_data, stream, output_file, ret, starts,
               writes >>

\* ------------------------------------------------------------- file names
\* transcript_file = transcripts_dir / f"{wav_file.stem}.html"
Stem(w) == CASE w = "a.wav" -> "a" [] w = "b.wav" -> "b"

TranscriptFile(w) == Stem(w) \o ".html"

\* mixed_file = temp_dir / f"{audio_file.stem}_mixed.wav"
MixedFile(w) == Stem(w) \o "_mixed.wav"

\* variant: the size test is missing
FileReadyAnySize(w) == audio[w] # "absent"

\* file_path.exists() and file_path.stat().st_size > 0
FileReady(w) == audio[w] = "data"

\* ---------------------------------------------------------------- queue
\* variant: the entry is put at the head
QueuePutFront(qq, id) == << id >> \o qq

\* queue.Queue.put: append at the tail
QueuePut(qq, id) == Append(qq, id)

\* variant: the newest entry is taken
QueueHeadLast(qq) == qq[Len(qq)]

\* queue.Queue.get_nowait: the head ...
QueueHead(qq) == Head(qq)

\* variant: get empties the queue
QueueRestEmpty(qq) == << >>

\* variant: get leaves the entry in the queue
QueueRestKeep(qq) == qq

\* ... which is removed
QueueRest(qq) == Tail(qq)

\* a new queue entry as TranscriptionQueue.add creates it
NewJob(w, src) ==
    [path |-> w, src |-> src, st |-> "Queued", trans |-> 0, exit |-> "none",
     posts |-> 0, resp |-> "none", started_at |-> "none",
     late |-> mainpc = "stopped"]

\* line 92: queue.Queue() has maxsize 0, which means no limit
QueueMaxSize == 0

\* variant: a queue of one slot
QueueFullAtOne(qq) == Len(qq) >= 1

\* queue.Queue.full: put() waits while it holds
QueueFull(qq) == QueueMaxSize > 0 /\ Len(qq) >= QueueMaxSize

\* TranscriptionQueue.add(audio_file)
QueueAdd(w, src) ==
    /\ ~QueueFull(q)
    /\ jobs' = Append(jobs, NewJob(w, src))
    /\ q' = QueuePut(q, Len(jobs) + 1)

\* no _premix_audio call to remember
NoPremix == [probe |-> 0, mixer |-> "none", filter |-> << >>]

JobIds == 1..Len(jobs)
TimerIds == 1..Len(timers)

Htmls == {TranscriptFile(w) : w \in Wavs}
Configs == {"disabled", "nourl", "url"}

RECURSIVE SumOver(_, _)
SumOver(f, S) ==
    IF S = {} THEN 0
    ELSE LET x == CHOOSE y \in S : TRUE IN f[x] + SumOver(f, S \ {x})

\* ------------------------------------------------------------------ Init
\* State at process start (main() has built the TranscribeWatcher): the
\* directories hold whatever earlier runs and the recorder left there.
FreshProcess ==
    /\ mainpc = "start"
    /\ scanTodo = {}
    /\ observing = FALSE
    /\ running = FALSE
    /\ q = << >>
    /\ processing = FALSE
    /\ current_file = ""
    /\ cur = 0
    /\ processed_audio = "orig"
    /\ premix = NoPremix
    /\ exc = ""
    /\ got = << >>
    /\ timers = << >>
    /\ pending_files = [w \in Wavs |-> 0]
    /\ hpc = "idle"
    /\ hpath = ""
    /\ notifs = [w \in Wavs |-> 0]
    /\ lastNotif = [w \in Wavs |-> 0]
    /\ burst = [w \in Wavs |-> TRUE]
    /\ scanned = {}
    /\ scanCount = [w \in Wavs |-> 0]

\* ------------------------------------------------ names of recordings
\* A stem is what split('_') and then split('-') make of it: a sequence of
\* parts, each a sequence of fields.  A field is text that int() rejects, a
\* number, or a number above the range of a C int.
Txt == [kind |-> "text", val |-> 0]
Big == [kind |-> "big", val |-> 0]
Num(n) == [kind |-> "num", val |-> n]

\* meeting_recorder names a recording YYYY-MM-DD_HH-MM-SS
RecorderStem == << << Num(2025), Num(12), Num(5) >>,
                   << Num(15), Num(56), Num(47) >> >>

IsLeap(y) == y % 4 = 0 /\ (y % 100 # 0 \/ y % 400 = 0)

DaysIn(y, m) ==
    CASE m \in {4, 6, 9, 11} -> 30
      [] m = 2 -> IF IsLeap(y) THEN 29 ELSE 28
      [] OTHER -> 31

\* the range checks of the datetime constructor
InRange(d, t) ==
    /\ d[1].val \in 1..9999
    /\ d[2].val \in 1..12
    /\ d[3].val \in 1..DaysIn(d[1].val, d[2].val)
    /\ t[1].val \in 0..23
    /\ t[2].val \in 0..59
    /\ t[3].val \in 0..59

\* local_dt.astimezone(timezone.utc), line 409: next to MINYEAR and MAXYEAR
\* the local zone decides whether the UTC value still is a date
AsTimezone(d) ==
    IF d[1].val \in {1, 9999}
    THEN {"parsed", "ValueError", "OverflowError"}
    ELSE {"parsed"}

\* lines 401-410: the ways the try block can end
StampOutcomes(stem) ==
    IF Len(stem) # 2 THEN {"ValueError"}                        \* line 401
    ELSE LET d == stem[1]
             t == stem[2]
         IN IF Len(d) # 3 \/ Len(t) # 3 THEN {"ValueError"}     \* 402-403
            ELSE IF \E i \in 1..3 : d[i].kind = "text" \/ t[i].kind = "text"
            THEN {"ValueError"}                                 \* int()
            ELSE IF \E i \in 1..3 : d[i].kind = "big" \/ t[i].kind = "big"
            THEN {"OverflowError"}                              \* C int
            ELSE IF ~InRange(d, t) THEN {"ValueError"}          \* datetime()
            ELSE AsTimezone(d)

\* line 412: except (ValueError, IndexError)
StampCaught(e) == e \in {"ValueError", "IndexError"}

\* started_at after lines 400-415: from the stem, the current UTC time, or
\* none because the exception went on to line 434
StartedAt(out) ==
    IF out = "parsed" THEN "stem"
    ELSE IF StampCaught(out) THEN "now"
    ELSE "raise"

\* ------------------------------------------------------- AudioRecorder
\* meeting_recorder.py, AudioRecorder.__init__ (lines 85-88)
NewRecorder ==
    /\ recording = FALSE
    /\ audio_data = 0
    /\ stream = "none"
    /\ output_file = ""
    /\ ret = "none"
    /\ starts = 0
    /\ writes = 0

\* the service starts on recordings named names[w]
InitNamed(names) ==
    /\ stems = names
    /\ audio \in [Wavs -> {"absent", "empty", "data"}]
    /\ transcripts \in SUBSET Htmls
    /\ tmpfiles = {}
    /\ fileOps = 0
    /\ now = 0
    /\ config \in Configs
    /\ run = 1
    /\ jobs = << >>
    /\ prevScanned = {}
    /\ prevCount = [w \in Wavs |-> 0]
    /\ prevFailed = {}
    /\ prevLate = {}
    /\ FreshProcess
    /\ NewRecorder

\* the recorder's names: a local date and time
Init == InitNamed([w \in Wavs |-> RecorderStem])

\* ----------------------------------------------------------- environment
\* The recorder (or the user) creates, fills, truncates or deletes an audio
\* file of the recordings directory.
FileChangeUpTo(w, s, max) ==
    /\ fileOps < max
    /\ audio[w] # s
    /\ audio' = [audio EXCEPT ![w] = s]
    /\ fileOps' = fileOps + 1
    /\ UNCHANGED recVars
    /\ UNCHANGED << transcripts, tmpfiles, now, config, stems, run, q, jobs,
                    observing >>
    /\ UNCHANGED mainVars
    /\ UNCHANGED timerVars
    /\ UNCHANGED scanVars

\* Time passes.
TickUpTo(max) ==
    /\ now < max
    /\ now' = now + 1
    /\ UNCHANGED recVars
    /\ UNCHANGED << config, stems, run, q, jobs, observing >>
    /\ UNCHANGED fsVars
    /\ UNCHANGED mainVars
    /\ UNCHANGED timerVars
    /\ UNCHANGED scanVars

\* ------------------------------------------- AudioFileHandler.on_created
\* variant: the observer dispatches from construction on
WatchingSinceInit == mainpc \notin {"stopped", "crashed"}

\* events are dispatched between observer.start() (line 197) and
\* observer.stop() (line 214)
Watching == observing

\* The observer thread delivers a creation event for a .wav file; on_created
\* runs up to the test of line 136: if file_path in self.pending_files
OnCreatedUpTo(w, max) ==
    /\ Watching
    /\ hpc = "idle"
    /\ SumOver(notifs, Wavs) < max
    /\ audio[w] # "absent"
    /\ hpc' = IF pending_files[w] # 0 THEN "cancel" ELSE "timer"
    /\ hpath' = w
    /\ notifs' = [notifs EXCEPT ![w] = @ + 1]
    /\ burst' = [burst EXCEPT ![w] =
                    IF notifs[w] = 0 THEN TRUE
                    ELSE @ /\ (now - lastNotif[w] < debounce_seconds)]
    /\ lastNotif' = [lastNotif EXCEPT ![w] = now]
    /\ UNCHANGED << timers, pending_files >>
    /\ UNCHANGED recVars
    /\ UNCHANGED << now, config, stems, run, q, jobs, observing >>
    /\ UNCHANGED fsVars
    /\ UNCHANGED mainVars
    /\ UNCHANGED scanVars

\* A recording with content appears in the watched directory.  While the
\* observer is running (after line 197) it dispatches the creation event
\* and on_created runs up to the test of line 136; before that nothing is
\* subscribed and no event exists.
FileCreated(w) ==
    /\ audio[w] = "absent"
    /\ audio' = [audio EXCEPT ![w] = "data"]
    /\ IF Watching
       THEN /\ hpc = "idle"
            /\ hpc' = IF pending_files[w] # 0 THEN "cancel" ELSE "timer"
            /\ hpath' = w
            /\ notifs' = [notifs EXCEPT ![w] = @ + 1]
            /\ burst' = [burst EXCEPT ![w] =
                            IF notifs[w] = 0 THEN TRUE
                            ELSE @ /\ (now - lastNotif[w] < debounce_seconds)]
            /\ lastNotif' = [lastNotif EXCEPT ![w] = now]
       ELSE UNCHANGED << hpc, hpath, notifs, lastNotif, burst >>
    /\ UNCHANGED << timers, pending_files >>
    /\ UNCHANGED << transcripts, tmpfiles, fileOps >>
    /\ UNCHANGED recVars
    /\ UNCHANGED << now, config, stems, run, q, jobs, observing >>
    /\ UNCHANGED mainVars
    /\ UNCHANGED scanVars

\* threading.Timer.cancel(): stops a timer that is still waiting; a timer
\* whose wait has already ended goes on to run its function.
TimerCancel(st) == IF st = "waiting" THEN "cancelled" ELSE st

\* line 137: self.pending_files[file_path].cancel().  The lookup raises
\* KeyError when a timer callback deleted the entry after line 136; the
\* exception leaves on_created, and the observer's dispatch thread either
\* survives it or ends.
OnCreatedCancel ==
    /\ hpc = "cancel"
    /\ IF pending_files[hpath] = 0
       THEN /\ hpc' = "idle"
            /\ hpath' = ""
            /\ observing' \in {observing, FALSE}
            /\ UNCHANGED timers
       ELSE /\ timers' = [timers EXCEPT
                            ![pending_files[hpath]].st = TimerCancel(@),
                            ![pending_files[hpath]].hit = TRUE]
            /\ hpc' = "timer"
            /\ UNCHANGED << hpath, observing >>
    /\ UNCHANGED << pending_files, notifs, lastNotif, burst >>
    /\ UNCHANGED recVars
    /\ UNCHANGED << now, config, stems, run, q, jobs >>
    /\ UNCHANGED fsVars
    /\ UNCHANGED mainVars
    /\ UNCHANGED scanVars

\* threading.Timer(debounce_seconds, ...): the function runs no earlier
\* than debounce_seconds after start()
NewTimer(w) ==
    [path |-> w, deadline |-> now + debounce_seconds, st |-> "waiting",
     hit |-> FALSE]

\* lines 140-146: create the timer, store it in pending_files, start it
OnCreatedTimer ==
    /\ hpc = "timer"
    /\ timers' = Append(timers, NewTimer(hpath))
    /\ pending_files' = [pending_files EXCEPT ![hpath] = Len(timers) + 1]
    /\ hpc' = "idle"
    /\ hpath' = ""
    /\ UNCHANGED << notifs, lastNotif, burst >>
    /\ UNCHANGED recVars
    /\ UNCHANGED << now, config, stems, run, q, jobs, observing >>
    /\ UNCHANGED fsVars
    /\ UNCHANGED mainVars
    /\ UNCHANGED scanVars

\* ---------------------------------------- threading.Timer / _add_to_queue
\* The wait of a timer that was not cancelled ends
TimerDue(t) == timers[t].st = "waiting" /\ now >= timers[t].deadline

\* Timer.run: finished.wait(interval) returned and the timer is not
\* cancelled, so _add_to_queue(file_path) is called and runs up to the test
\* of line 150: if file_path in self.pending_files
TimerFire(t) ==
    /\ TimerDue(t)
    /\ timers' = [timers EXCEPT
                     ![t].st = IF pending_files[timers[t].path] # 0
                               THEN "del" ELSE "check",
                     ![t].deadline = 0]
    /\ UNCHANGED << pending_files, hpc, hpath, notifs, lastNotif, burst >>
    /\ UNCHANGED recVars
    /\ UNCHANGED << now, config, stems, run, q, jobs, observing >>
    /\ UNCHANGED fsVars
    /\ UNCHANGED mainVars
    /\ UNCHANGED scanVars

\* del self.pending_files[file_path]: removes whatever entry the path has
DelEntry(pf, w) == [pf EXCEPT ![w] = 0]

\* line 151.  KeyError (another callback removed the entry after line 150)
\* ends the timer thread.
TimerDel(t) ==
    /\ timers[t].st = "del"
    /\ IF pending_files[timers[t].path] = 0
       THEN /\ timers' = [timers EXCEPT ![t].st = "dead"]
            /\ UNCHANGED pending_files
       ELSE /\ pending_files' = DelEntry(pending_files, timers[t].path)
            /\ timers' = [timers EXCEPT ![t].st = "check"]
    /\ UNCHANGED << hpc, hpath, notifs, lastNotif, burst >>
    /\ UNCHANGED recVars
    /\ UNCHANGED << now, config, stems, run, q, jobs, observing >>
    /\ UNCHANGED fsVars
    /\ UNCHANGED mainVars
    /\ UNCHANGED scanVars

\* lines 153-157: enqueue if the file exists and has content ("queued"),
\* else warn ("dropped")
TimerCheck(t) ==
    /\ timers[t].st = "check"
    /\ IF FileReady(timers[t].path)
       THEN /\ QueueAdd(timers[t].path, "timer")
            /\ timers' = [timers EXCEPT ![t].st = "queued"]
       ELSE /\ timers' = [timers EXCEPT ![t].st = "dropped"]
            /\ UNCHANGED << q, jobs >>
    /\ UNCHANGED << pending_files, hpc, hpath, notifs, lastNotif, burst >>
    /\ UNCHANGED recVars
    /\ UNCHANGED << now, config, stems, run, observing >>
    /\ UNCHANGED fsVars
    /\ UNCHANGED mainVars
    /\ UNCHANGED scanVars

\* ------------------------------------------- TranscribeWatcher.start()
\* _process_existing_files, line 220: glob("*.wav") lists the directory
ScanList ==
    /\ mainpc = "start"
    /\ scanTodo' = {w \in Wavs : audio[w] # "absent"}
    /\ scanned' = {w \in Wavs : audio[w] # "absent"}
    /\ mainpc' = "scan"
    /\ UNCHANGED << scanCount, prevScanned, prevCount, prevFailed,
                    prevLate >>
    /\ UNCHANGED << running, processing, current_file, cur,
                    processed_audio, premix,
                    exc, got >>
    /\ UNCHANGED recVars
    /\ UNCHANGED << now, config, stems, run, q, jobs, observing >>
    /\ UNCHANGED fsVars
    /\ UNCHANGED timerVars

\* variant: the scan enqueues every recording
UnprocessedAlways(w) == TRUE

\* variant: the scan enqueues nothing
UnprocessedNever(w) == FALSE

\* variant: empty recordings are skipped
UnprocessedNonEmpty(w) ==
    TranscriptFile(w) \notin transcripts /\ audio[w] = "data"

\* line 222: if not transcript_file.exists()
Unprocessed(w) == TranscriptFile(w) \notin transcripts

\* lines 221-224, one iteration of the loop over the listing
ScanFile(w) ==
    /\ mainpc = "scan"
    /\ w \in scanTodo
    /\ scanTodo' = scanTodo \ {w}
    /\ IF Unprocessed(w)
       THEN QueueAdd(w, "scan")
       ELSE UNCHANGED << q, jobs >>
    /\ UNCHANGED << mainpc, running, processing, current_file, cur,
                    processed_audio, premix, exc, got >>
    /\ UNCHANGED recVars
    /\ UNCHANGED << now, config, stems, run, observing >>
    /\ UNCHANGED fsVars
    /\ UNCHANGED timerVars
    /\ UNCHANGED scanVars

\* lines 195-200: the scan is over; schedule and start the observer, set
\* running, enter the loop
ObserverStart ==
    /\ mainpc = "scan"
    /\ scanTodo = {}
    /\ observing' = TRUE
    /\ running' = TRUE
    /\ mainpc' = "poll"
    /\ scanCount' = [w \in Wavs |->
                        Cardinality({i \in 1..Len(q) : jobs[q[i]].path = w})]
    /\ UNCHANGED << scanned, prevScanned, prevCount, prevFailed,
                    prevLate >>
    /\ UNCHANGED << scanTodo, processing, current_file, cur,
                    processed_audio, premix,
                    exc, got >>
    /\ UNCHANGED recVars
    /\ UNCHANGED << now, config, stems, run, q, jobs >>
    /\ UNCHANGED fsVars
    /\ UNCHANGED timerVars

\* ------------------------------------ TranscribeWatcher._process_queue()
\* positions of the main thread inside the polling loop (lines 203-206)
LoopPcs == {"poll", "premix", "build", "transcribe", "deliver",
            "finally", "sleep"}

\* variant: the next job is taken while one is still being transcribed
AtLoopTopOrBusy == mainpc \in {"poll", "transcribe"}

\* the loop calls _process_queue only from the top of an iteration
AtLoopTop == mainpc = "poll"

SetJob(id, f, v) == [jobs EXCEPT ![id][f] = v]

\* lines 228-230: get() on an empty queue returns None; the iteration ends
PollEmpty ==
    /\ AtLoopTop
    /\ running
    /\ q = << >>
    /\ mainpc' = "sleep"
    /\ UNCHANGED << scanTodo, running, processing, current_file, cur,
                    processed_audio, premix, exc, got >>
    /\ UNCHANGED recVars
    /\ UNCHANGED << now, config, stems, run, q, jobs, observing >>
    /\ UNCHANGED fsVars
    /\ UNCHANGED timerVars
    /\ UNCHANGED scanVars

\* lines 228-233: get() returns the oldest entry, which becomes the job in
\* Processing
PollJob ==
    /\ AtLoopTop
    /\ running
    /\ q # << >>
    /\ LET id == QueueHead(q) IN
        /\ q' = QueueRest(q)
        /\ got' = Append(got, id)
        /\ cur' = id
        /\ current_file' = jobs[id].path
        /\ jobs' = SetJob(id, "st", "Processing")
    /\ processing' = TRUE
    /\ mainpc' = "premix"
    /\ UNCHANGED << scanTodo, running, processed_audio, premix, exc >>
    /\ UNCHANGED recVars
    /\ UNCHANGED << now, config, stems, run, observing >>
    /\ UNCHANGED fsVars
    /\ UNCHANGED timerVars
    /\ UNCHANGED scanVars

\* line 206: time.sleep(poll_interval), then the while test of line 204
Wake ==
    /\ mainpc = "sleep"
    /\ mainpc' = IF running THEN "poll" ELSE "stopped"
    /\ UNCHANGED << scanTodo, running, processing, current_file, cur,
                    processed_audio, premix, exc, got >>
    /\ UNCHANGED recVars
    /\ UNCHANGED << now, config, stems, run, q, jobs, observing >>
    /\ UNCHANGED fsVars
    /\ UNCHANGED timerVars
    /\ UNCHANGED scanVars

\* ------------------------------------ TranscribeWatcher._transcribe_file
MaxChannels == 3
\* what ffprobe reports: 0 stands for a failed probe or unparsable output
ProbeResults == 0..MaxChannels

\* lines 256-262: channels = int(stdout), or 2 when the probe fails
Channels(probe) == IF probe = 0 THEN 2 ELSE probe

\* line 264: pre-mixing is needed for more than two channels
NeedsMix(probe) == Channels(probe) > 2

\* variant: every channel gets half
MixWeightHalf(channels) == << 1, 2 >>

\* line 276: weight = 1.0 / channels, kept as numerator and denominator
MixWeight(channels) == << 1, channels >>

\* line 277: the terms of the pan filter, one per i in range(channels)
MixFilter(channels) ==
    [i \in 1..channels |-> [ch |-> i - 1, weight |-> MixWeight(channels)]]

\* how the ffmpeg call of lines 288-298 can end: exit code 0 with the mixed
\* file written, exit code 0 without it, another exit code, an exception
MixOutcomes == {"ok", "nofile", "nonzero", "raise"}

\* variant: the exit code alone decides
MixOkByExitCode(mix) == mix \in {"ok", "nofile"}

\* line 290: returncode == 0 and mixed_file.exists()
MixOk(mix) == mix = "ok"

\* _premix_audio (lines 243-298), called at line 308: returns the original
\* file, or the temporary mixed file when ffmpeg succeeded and wrote it
PremixOf(probes) ==
    /\ mainpc = "premix"
    /\ \E probe \in probes :
          IF NeedsMix(probe)
          THEN \E mix \in MixOutcomes :
                 /\ premix' = [probe |-> probe, mixer |-> mix,
                               filter |-> MixFilter(Channels(probe))]
                 /\ processed_audio' = IF MixOk(mix) THEN "mixed" ELSE "orig"
                 /\ tmpfiles' = IF MixOk(mix)
                                THEN tmpfiles \cup {MixedFile(current_file)}
                                ELSE tmpfiles
          ELSE /\ premix' = [NoPremix EXCEPT !.probe = probe]
               /\ processed_audio' = "orig"
               /\ UNCHANGED tmpfiles
    /\ mainpc' = "build"
    /\ UNCHANGED << scanTodo, running, processing, current_file, cur, exc,
                    got >>
    /\ UNCHANGED << audio, transcripts, fileOps >>
    /\ UNCHANGED recVars
    /\ UNCHANGED << now, config, stems, run, q, jobs, observing >>
    /\ UNCHANGED timerVars
    /\ UNCHANGED scanVars

\* variant: no except clause
HandlerCatchesNothing(e) == FALSE

\* line 237: except Exception -- catches every error of the job, but not
\* KeyboardInterrupt
HandlerCatches(e) == e # "KeyboardInterrupt"

\* what is left propagating after the except clause of line 237
AfterExcept(e) == IF HandlerCatches(e) THEN "" ELSE e

\* lines 311-342: build the command and launch noScribe.
\*   "typeerror": ' '.join(cmd) at line 333 raises because the config gave a
\*                non-string pause or model; the exception leaves
\*                _transcribe_file and reaches line 237
\*   "nolaunch":  subprocess.run raises; caught at line 350, return
\*   "launched":  the subprocess runs
TranscribeStart ==
    /\ mainpc = "build"
    /\ \E how \in {"typeerror", "nolaunch", "launched"} :
          CASE how = "typeerror" ->
                 /\ jobs' = [jobs EXCEPT ![cur].st = "FailedLocal",
                                          ![cur].exit = "typeerror"]
                 /\ exc' = AfterExcept("TypeError")
                 /\ mainpc' = "finally"
                 /\ premix' = NoPremix
            [] how = "nolaunch" ->
                 /\ jobs' = [jobs EXCEPT ![cur].st = "FailedLocal",
                                          ![cur].exit = "nolaunch"]
                 /\ mainpc' = "finally"
                 /\ premix' = NoPremix
                 /\ UNCHANGED exc
            [] how = "launched" ->
                 /\ jobs' = SetJob(cur, "trans", jobs[cur].trans + 1)
                 /\ mainpc' = "transcribe"
                 /\ UNCHANGED << exc, premix >>
    /\ UNCHANGED << scanTodo, running, processing, current_file, cur,
                    processed_audio, got >>
    /\ UNCHANGED recVars
    /\ UNCHANGED << now, config, stems, run, q, observing >>
    /\ UNCHANGED fsVars
    /\ UNCHANGED timerVars
    /\ UNCHANGED scanVars

\* variant: the exit code is not looked at
TranscribeOkAlways(rc) == TRUE

\* line 344: a non-zero exit code is a failure
TranscribeOk(rc) == rc = 0

\* variant: noScribe leaves a transcript whatever its exit code
WrittenAlways(rc) == TRUE

\* noScribe writes the transcript file named on its command line (line 315)
\* when it succeeds
Written(rc) == rc = 0

ExitName(rc) == IF rc = 0 THEN "zero" ELSE "nonzero"

\* lines 337-355: subprocess.run returns.  Exit code 0: noScribe wrote the
\* transcript; otherwise log and return.
TranscribeEnd ==
    /\ mainpc = "transcribe"
    /\ premix' = NoPremix
    /\ \E rc \in {0, 1} :
       /\ IF TranscribeOk(rc)
          THEN /\ jobs' = SetJob(cur, "exit", ExitName(rc))
               /\ mainpc' = "deliver"
          ELSE /\ jobs' = [jobs EXCEPT ![cur].st = "FailedLocal",
                                        ![cur].exit = ExitName(rc)]
               /\ mainpc' = "finally"
       /\ transcripts' = IF Written(rc)
                         THEN transcripts \cup {TranscriptFile(current_file)}
                         ELSE transcripts
    /\ UNCHANGED << scanTodo, running, processing, current_file, cur,
                    processed_audio, exc, got >>
    /\ UNCHANGED << audio, tmpfiles, fileOps >>
    /\ UNCHANGED recVars
    /\ UNCHANGED << now, config, stems, run, q, observing >>
    /\ UNCHANGED timerVars
    /\ UNCHANGED scanVars

\* variant: the configuration is not consulted
WebhookWantedAlways == TRUE

\* line 366 and lines 380-384: the webhook is called only when it is enabled
\* and has a URL
WebhookWanted == config = "url"

\* lines 388-392: the payload needs the transcript and the audio file's size;
\* lines 396-415: and a start time
PayloadReady(w) == TranscriptFile(w) \in transcripts /\ audio[w] # "absent"

\* variant: raise_for_status() is missing
PostOkAlways(resp) == TRUE

\* response.raise_for_status(): 2xx passes
PostOk(resp) == resp = "2xx"

\* how many POSTs one call of _send_webhook issues (line 426, no retry loop)
PostsPerCall == 1

\* lines 357-363: the temporary mixed file, if one was created, is deleted
Cleaned(files, w, pa) == IF pa = "mixed" THEN files \ {MixedFile(w)} ELSE files

\* lines 357-367 and _send_webhook (lines 369-435)
Deliver ==
    /\ mainpc = "deliver"
    /\ tmpfiles' = Cleaned(tmpfiles, current_file, processed_audio)
    /\ IF ~WebhookWanted
       THEN jobs' = SetJob(cur, "st", "Delivered")
       ELSE \E out \in StampOutcomes(stems[current_file]) :
            IF ~PayloadReady(current_file) \/ StartedAt(out) = "raise"
            THEN jobs' = [jobs EXCEPT ![cur].st = "FailedDelivery",
                                      ![cur].resp = "nopayload"]
            ELSE \E resp \in {"2xx", "500", "raise"} :
                   jobs' = [jobs EXCEPT
                              ![cur].posts = @ + PostsPerCall,
                              ![cur].resp = resp,
                              ![cur].started_at = StartedAt(out),
                              ![cur].st = IF PostOk(resp) THEN "Delivered"
                                          ELSE "FailedDelivery"]
    /\ mainpc' = "finally"
    /\ UNCHANGED << scanTodo, running, processing, current_file, cur,
                    processed_audio, premix, exc, got >>
    /\ UNCHANGED recVars
    /\ UNCHANGED << now, config, stems, run, q, observing >>
    /\ UNCHANGED << audio, transcripts, fileOps >>
    /\ UNCHANGED timerVars
    /\ UNCHANGED scanVars

\* lines 239-241 (finally), then what the pending exception does: none, the
\* loop goes on to sleep; KeyboardInterrupt, line 207 calls stop(); any
\* other exception would leave start()
Finally ==
    /\ mainpc = "finally"
    /\ processing' = FALSE
    /\ current_file' = ""
    /\ cur' = 0
    /\ processed_audio' = "orig"
    /\ premix' = NoPremix
    /\ exc' = ""
    /\ CASE exc = "" ->
              /\ mainpc' = "sleep"
              /\ UNCHANGED << running, observing >>
         [] exc = "KeyboardInterrupt" ->
              /\ mainpc' = "stopped"
              /\ running' = FALSE
              /\ observing' = FALSE
         [] OTHER ->
              /\ mainpc' = "crashed"
              /\ UNCHANGED << running, observing >>
    /\ UNCHANGED << scanTodo, got >>
    /\ UNCHANGED recVars
    /\ UNCHANGED << now, config, stems, run, q, jobs >>
    /\ UNCHANGED fsVars
    /\ UNCHANGED timerVars
    /\ UNCHANGED scanVars

\* ------------------------------------------------- Ctrl+C, stop(), restart
\* KeyboardInterrupt while the loop is between jobs: line 207 calls stop()
\* (lines 210-216)
InterruptIdle ==
    /\ mainpc \in {"poll", "sleep"}
    /\ running' = FALSE
    /\ observing' = FALSE
    /\ mainpc' = "stopped"
    /\ UNCHANGED << scanTodo, processing, current_file, cur,
                    processed_audio, premix,
                    exc, got >>
    /\ UNCHANGED recVars
    /\ UNCHANGED << now, config, stems, run, q, jobs >>
    /\ UNCHANGED fsVars
    /\ UNCHANGED timerVars
    /\ UNCHANGED scanVars

\* KeyboardInterrupt inside _transcribe_file: the job is abandoned where it
\* is (a running subprocess is killed by subprocess.run) and the exception
\* passes line 237
InterruptJob ==
    /\ mainpc \in {"premix", "build", "transcribe", "deliver"}
    /\ jobs' = SetJob(cur, "st", "Interrupted")
    /\ exc' = AfterExcept("KeyboardInterrupt")
    /\ mainpc' = "finally"
    /\ premix' = NoPremix
    /\ UNCHANGED << scanTodo, running, processing, current_file, cur,
                    processed_audio, got >>
    /\ UNCHANGED recVars
    /\ UNCHANGED << now, config, stems, run, q, observing >>
    /\ UNCHANGED fsVars
    /\ UNCHANGED timerVars
    /\ UNCHANGED scanVars

\* variant: the queue of the previous run is restored
NewQueueRestored(old) == old

\* TranscribeWatcher.__init__, line 177, and TranscriptionQueue.__init__,
\* line 92: every process builds a new, empty queue.Queue
NewQueue(old) == << >>

\* The stopped process is gone and the service is started again: memory
\* (queue, timers, pending_files) is new, the directories are as they were.
\* The log of entries starts again with what the new queue holds.
Restart ==
    /\ mainpc = "stopped"
    /\ run < MaxRuns
    /\ run' = run + 1
    /\ jobs' = [i \in 1..Len(NewQueue(q)) |-> jobs[NewQueue(q)[i]]]
    /\ mainpc' = "start"
    /\ scanTodo' = {}
    /\ observing' = FALSE
    /\ running' = FALSE
    /\ q' = [i \in 1..Len(NewQueue(q)) |-> i]
    /\ processing' = FALSE
    /\ current_file' = ""
    /\ cur' = 0
    /\ processed_audio' = "orig"
    /\ premix' = NoPremix
    /\ exc' = ""
    /\ got' = << >>
    /\ timers' = << >>
    /\ pending_files' = [w \in Wavs |-> 0]
    /\ hpc' = "idle"
    /\ hpath' = ""
    /\ notifs' = [w \in Wavs |-> 0]
    /\ lastNotif' = [w \in Wavs |-> 0]
    /\ burst' = [w \in Wavs |-> TRUE]
    /\ scanned' = {}
    /\ scanCount' = [w \in Wavs |-> 0]
    /\ prevScanned' = scanned
    /\ prevCount' = scanCount
    /\ prevFailed' = {jobs[j].path : j \in {i \in JobIds :
                                              jobs[i].st = "FailedLocal"}}
    /\ prevLate' = {jobs[j].path : j \in {i \in JobIds : jobs[i].late}}
    /\ UNCHANGED recVars
    /\ UNCHANGED << now, config, stems >>
    /\ UNCHANGED fsVars

\* ----------------------------------- AudioRecorder (meeting_recorder.py)
MaxCycles == 2
MaxChunks == 2

\* how the try block of lines 98-108 can end: the stream is created and
\* started; sd.InputStream(...) raises; stream.start() raises
StartOutcomes == {"ok", "noconstruct", "nostart"}

\* variant: start() never refuses
StartRefusedNever(rec) == FALSE

\* lines 92-93: if self.recording: return False
StartRefused(rec) == rec

\* lines 115-116: if not self.recording: return None
StopRefused(rec) == ~rec

\* line 124: if self.audio_data and self.output_file
HasAudio == audio_data > 0 /\ output_file # ""

\* AudioRecorder.start(output_file), lines 90-111
RecorderStart(f, out) ==
    /\ IF StartRefused(recording)
       THEN /\ ret' = "False"
            /\ UNCHANGED << recording, audio_data, stream, output_file,
                            starts >>
       ELSE /\ starts < MaxCycles
            /\ output_file' = f
            /\ audio_data' = 0
            /\ recording' = (out = "ok")
            /\ stream' = CASE out = "ok" -> "active"
                           [] out = "nostart" -> "open"
                           [] OTHER -> stream
            /\ ret' = IF out = "ok" THEN "True" ELSE "RuntimeError"
            /\ starts' = IF out = "ok" THEN starts + 1 ELSE starts
    /\ UNCHANGED << writes, now, config, stems, run, q, jobs, observing >>
    /\ UNCHANGED fsVars
    /\ UNCHANGED mainVars
    /\ UNCHANGED timerVars
    /\ UNCHANGED scanVars

\* AudioRecorder._audio_callback, lines 144-150: the started stream hands
\* over a chunk, kept while recording
AudioCallback ==
    /\ stream = "active"
    /\ audio_data < MaxChunks
    /\ audio_data' = IF recording THEN audio_data + 1 ELSE audio_data
    /\ UNCHANGED << recording, stream, output_file, ret, starts, writes >>
    /\ UNCHANGED << now, config, stems, run, q, jobs, observing >>
    /\ UNCHANGED fsVars
    /\ UNCHANGED mainVars
    /\ UNCHANGED timerVars
    /\ UNCHANGED scanVars

\* AudioRecorder.stop(), lines 113-142: sf.write puts the recording into
\* the recordings directory
RecorderStop ==
    /\ IF StopRefused(recording)
       THEN /\ ret' = "None"
            /\ UNCHANGED << recording, stream, audio, writes >>
       ELSE /\ recording' = FALSE
            /\ stream' = "none"
            /\ IF HasAudio
               THEN /\ audio' = [audio EXCEPT ![output_file] = "data"]
                    /\ writes' = writes + 1
                    /\ ret' = output_file
               ELSE /\ ret' = "None"
                    /\ UNCHANGED << audio, writes >>
    /\ UNCHANGED << audio_data, output_file, starts >>
    /\ UNCHANGED << transcripts, tmpfiles, fileOps >>
    /\ UNCHANGED << now, config, stems, run, q, jobs, observing >>
    /\ UNCHANGED mainVars
    /\ UNCHANGED timerVars
    /\ UNCHANGED scanVars

\* ------------------------------------------------------- specifications
StartActs ==
    \/ ScanList
    \/ \E w \in Wavs : ScanFile(w)
    \/ ObserverStart

TimerActs ==
    \/ OnCreatedCancel
    \/ OnCreatedTimer
    \/ \E t \in TimerIds : TimerFire(t)
    \/ \E t \in TimerIds : TimerDel(t)
    \/ \E t \in TimerIds : TimerCheck(t)

JobActs ==
    \/ PollEmpty
    \/ PollJob
    \/ Wake
    \/ TranscribeStart
    \/ TranscribeEnd
    \/ Deliver
    \/ Finally

StopActs ==
    \/ InterruptIdle
    \/ InterruptJob

\* The debounce coalescer: notification thread, timer threads, clock and
\* file changes, in a process whose recordings are all transcribed already
\* and whose main thread stays between jobs.
InitDebounce ==
    /\ Init
    /\ transcripts = Htmls
    /\ config = "disabled"

FileChange(w, s) == FileChangeUpTo(w, s, MaxFileOps)

Tick == TickUpTo(MaxTime)

OnCreated(w) == OnCreatedUpTo(w, MaxNotifs)

NextDebounce ==
    \/ \E w \in Wavs, s \in {"absent", "empty", "data"} : FileChange(w, s)
    \/ Tick
    \/ \E w \in Wavs : OnCreated(w)
    \/ StartActs
    \/ TimerActs

SpecDebounce == InitDebounce /\ [][NextDebounce]_vars

\* One recording, written before the service started and not touched again,
\* and the creation notifications it gets: long enough for a timer started
\* debounce_seconds late to fire.
InitBurst ==
    /\ InitDebounce
    /\ audio = [w \in Wavs |-> IF w = "a.wav" THEN "data" ELSE "absent"]

BurstTick == TickUpTo(BurstMaxTime)

BurstOnCreated == OnCreatedUpTo("a.wav", BurstMaxNotifs)

NextBurst ==
    \/ BurstTick
    \/ BurstOnCreated
    \/ StartActs
    \/ TimerActs

SpecBurst == InitBurst /\ [][NextBurst]_vars

\* One process run of the pipeline: reconciliation scan, notification and
\* timer threads enqueueing, the polling loop, Ctrl+C.  Recordings have at
\* most two channels (or cannot be probed); files only disappear.
InitPipeline ==
    /\ Init
    /\ audio = [w \in Wavs |-> "data"]
    /\ transcripts = {TranscriptFile("b.wav")}
    /\ config = "url"

PipeTick == TickUpTo(PipeMaxTime)

PipeOnCreated(w) == OnCreatedUpTo(w, PipeMaxNotifs)

PremixStereo == PremixOf({0, 1, 2})

NextPipeline ==
    \/ PipeTick
    \/ \E w \in Wavs : PipeOnCreated(w)
    \/ PremixStereo
    \/ StartActs
    \/ TimerActs
    \/ JobActs
    \/ StopActs

SpecPipeline == InitPipeline /\ [][NextPipeline]_vars

\* Successive process runs without live notifications: scan, loop, Ctrl+C,
\* restart.  Recordings have at most two channels (or cannot be probed).
InitRestart ==
    /\ Init
    /\ config = "url"

NextRestart ==
    \/ \E w \in Wavs, s \in {"absent", "empty", "data"} : FileChange(w, s)
    \/ PremixStereo
    \/ StartActs
    \/ JobActs
    \/ StopActs
    \/ Restart

SpecRestart == InitRestart /\ [][NextRestart]_vars

\* One process run on recordings of any channel count, with any webhook
\* configuration: scan, polling loop with pre-mixing, Ctrl+C.
InitPremix ==
    /\ Init
    /\ audio = [w \in Wavs |-> "data"]
    /\ transcripts = {}

Premix == PremixOf(ProbeResults)

NextPremix ==
    \/ Premix
    \/ StartActs
    \/ JobActs
    \/ StopActs

SpecPremix == InitPremix /\ [][NextPremix]_vars

\* Stop and restart with timers in flight, for one recording that has no
\* transcript yet: notifications, timers, the loop, Ctrl+C, and the next
\* process start.
InitStop ==
    /\ Init
    /\ audio = [w \in Wavs |-> IF w = "a.wav" THEN "data" ELSE "absent"]
    /\ transcripts = {}
    /\ config = "disabled"

StopTick == TickUpTo(StopMaxTime)

StopOnCreated == OnCreatedUpTo("a.wav", StopMaxNotifs)

NextStop ==
    \/ StopTick
    \/ StopOnCreated
    \/ PremixStereo
    \/ StartActs
    \/ TimerActs
    \/ JobActs
    \/ StopActs
    \/ Restart

SpecStop == InitStop /\ [][NextStop]_vars

\* One recording of any name, transcribed and delivered.
DateFields == {Txt, Big, Num(0), Num(2), Num(30)}
TimeFields == {Txt, Num(0), Num(60)}

Stems ==
    {<< d, t >> : d \in [1..3 -> DateFields], t \in [1..3 -> TimeFields]}
    \cup {<< RecorderStem[1] >>,
          << RecorderStem[1], RecorderStem[2], RecorderStem[2] >>,
          << << Num(2025), Num(12) >>, RecorderStem[2] >>,
          << RecorderStem[1], << Num(15), Num(56), Num(47), Num(0) >> >>,
          RecorderStem}

InitStamp ==
    /\ \E s \in Stems :
          InitNamed([w \in Wavs |-> IF w = "a.wav" THEN s ELSE RecorderStem])
    /\ audio = [w \in Wavs |-> IF w = "a.wav" THEN "data" ELSE "absent"]
    /\ transcripts = {}
    /\ config = "url"

NextStamp ==
    \/ PremixStereo
    \/ StartActs
    \/ JobActs
    \/ StopActs

SpecStamp == InitStamp /\ [][NextStamp]_vars

\* The whole service.
\* Start-up and live watching of one process run: one recording exists
\* when start() is called, the other appears at some moment of the run.
InitStartup ==
    /\ Init
    /\ audio = [w \in Wavs |-> IF w = "a.wav" THEN "data" ELSE "absent"]
    /\ transcripts = {}
    /\ config = "disabled"

NextStartup ==
    \/ StopTick
    \/ \E w \in Wavs : FileCreated(w)
    \/ OnCreatedTimer
    \/ \E t \in TimerIds : TimerFire(t)
    \/ \E t \in TimerIds : TimerDel(t)
    \/ \E t \in TimerIds : TimerCheck(t)
    \/ PremixStereo
    \/ StartActs
    \/ JobActs
    \/ StopActs

SpecStartup == InitStartup /\ [][NextStartup]_vars

\* One process run under scheduling: the main thread (start(), then the
\* polling loop of lines 204-206) keeps running, and every subprocess and
\* POST it waits for returns.  Notifications, the clock, the timer threads
\* and Ctrl+C are not forced.
InitLive ==
    /\ Init
    /\ audio = [w \in Wavs |-> IF w = "a.wav" THEN "data" ELSE "absent"]
    /\ transcripts = {}
    /\ config = "url"

MainThread ==
    \/ StartActs
    \/ PremixStereo
    \/ JobActs

NextLive ==
    \/ StopTick
    \/ StopOnCreated
    \/ PremixStereo
    \/ StartActs
    \/ TimerActs
    \/ JobActs
    \/ StopActs

SpecLive == InitLive /\ [][NextLive]_vars /\ WF_vars(MainThread)

\* The recorder alone: start and stop calls in any order, the audio callback
\* in between, writing into an empty recordings directory.
InitRecorder ==
    /\ Init
    /\ audio = [w \in Wavs |-> "absent"]
    /\ transcripts = {}
    /\ config = "disabled"

NextRecorder ==
    \/ \E f \in Wavs, out \in StartOutcomes : RecorderStart(f, out)
    \/ AudioCallback
    \/ RecorderStop

SpecRecorder == InitRecorder /\ [][NextRecorder]_vars

Next ==
    \/ NextDebounce
    \/ NextPipeline
    \/ NextRestart
    \/ NextBurst
    \/ NextPremix
    \/ NextStamp
    \/ NextStop
    \/ NextLive
    \/ NextStartup
    \/ NextRecorder

Spec == Init /\ [][Next]_vars

TypeOK ==
    /\ audio \in [Wavs -> {"absent", "empty", "data"}]
    /\ transcripts \subseteq Htmls
    /\ now \in 0..BurstMaxTime
    /\ run \in 1..MaxRuns
    /\ mainpc \in LoopPcs \cup {"start", "scan", "stopped", "crashed"}
    /\ cur \in 0..Len(jobs)
    /\ \A w \in Wavs : pending_files[w] \in 0..Len(timers)
    /\ recording \in BOOLEAN
    /\ audio_data \in 0..MaxChunks
    /\ stream \in {"none", "open", "active"}
    /\ output_file \in Wavs \cup {""}
    /\ starts \in 0..MaxCycles
    /\ writes \in 0..MaxCycles

\* ------------------------------------------------------------ properties
Terminal == {"Delivered", "FailedLocal", "FailedDelivery"}

\* entries of this run that a debounce timer added for path w
TimerJobs(w) ==
    {j \in JobIds : jobs[j].src = "timer" /\ jobs[j].path = w}

\* every timer of path w was cancelled or has enqueued, and on_created is
\* not handling w
Settled(w) ==
    /\ hpath # w
    /\ \A t \in TimerIds :
          timers[t].path = w => timers[t].st \in {"cancelled", "queued"}

\* C1: a path whose notifications (two or more) each came less than
\* debounce_seconds after the previous one, and whose file was there with
\* content at expiry, gets exactly one job from the debounce timers, and not
\* earlier than debounce_seconds after the last notification: a timer's
\* enqueue for such a path is the first one and comes late enough, and once
\* all its timers are through there is one job.
C1_OneJobPerBurst ==
    /\ [][\A w \in Wavs :
             ( /\ notifs[w] >= 2
               /\ burst[w]
               /\ Len(jobs') = Len(jobs) + 1
               /\ jobs'[Len(jobs')].src = "timer"
               /\ jobs'[Len(jobs')].path = w )
             => /\ TimerJobs(w) = {}
                /\ now >= lastNotif[w] + debounce_seconds]_vars
    /\ [](\A w \in Wavs :
             (notifs[w] >= 2 /\ burst[w] /\ Settled(w))
                 => Cardinality(TimerJobs(w)) = 1)

\* C2: when a timer's callback finds the file missing or empty, that firing
\* leaves the queue as it is, and the path's entry in pending_files is not
\* that timer any more.
C2_DropLeavesQueue ==
    [][\A t \in TimerIds :
          ( /\ timers[t].st = "check"
            /\ audio[timers[t].path] # "data"
            /\ timers'[t].st # "check" )
          => /\ q' = q
             /\ jobs' = jobs
             /\ pending_files'[timers[t].path] # t]_vars

C2_Witness ==
    \E t \in TimerIds :
        /\ timers[t].st = "dropped"
        /\ pending_files[timers[t].path] = 0
        /\ TimerJobs(timers[t].path) = {}

InProcessing == {j \in JobIds : jobs[j].st = "Processing"}

\* C3: at most one job is in Processing, whatever the timer threads enqueue
\* meanwhile.
C3_OneJobProcessing == Cardinality(InProcessing) <= 1

C3_Witness ==
    /\ Cardinality(InProcessing) = 1
    /\ mainpc = "transcribe"
    /\ q # << >>
    /\ \E t \in TimerIds : timers[t].st = "check"

\* C4: the entries returned by get(), followed by the entries still in the
\* queue, are exactly the entries added in this run, in the order of their
\* add: nothing is dropped, nothing returned twice, nothing reordered.
C4_QueueIsFifo == got \o q = [i \in 1..Len(jobs) |-> i]

C4_Witness ==
    /\ Len(got) >= 2
    /\ q # << >>
    /\ \E i \in 1..Len(got) : jobs[got[i]].src = "timer"
    /\ \E i \in 1..Len(got) : jobs[got[i]].src = "scan"

\* C5: a job that has left the queue finds every job enqueued before it
\* finished with a terminal outcome.
C5_ProcessedInEnqueueOrder ==
    \A i, j \in JobIds :
        (i < j /\ jobs[j].st # "Queued")
            => jobs[i].st \in Terminal

C5_Witness ==
    \E i, j \in JobIds :
        /\ i < j
        /\ jobs[i].st \in Terminal
        /\ jobs[j].st = "Processing"
        /\ q # << >>

\* C6: a step of the reconciliation scan enqueues the file it visits if and
\* only if the file's transcript does not exist at that moment; the file's
\* size and the queue's contents play no part.
C6_ScanEnqueuesIffNoTranscript ==
    [][\A w \in Wavs :
          (mainpc = "scan" /\ w \in scanTodo /\ w \notin scanTodo')
          => IF TranscriptFile(w) \notin transcripts
             THEN /\ Len(jobs') = Len(jobs) + 1
                  /\ jobs'[Len(jobs')].path = w
                  /\ q' = Append(q, Len(jobs'))
             ELSE /\ jobs' = jobs
                  /\ q' = q]_vars

C6_Witness ==
    /\ mainpc = "poll"
    /\ got = << >>
    /\ \E w \in scanned :
          /\ audio[w] = "empty"
          /\ \E i \in 1..Len(q) : jobs[q[i]].path = w
    /\ \E w \in scanned :
          /\ TranscriptFile(w) \in transcripts
          /\ \A i \in 1..Len(q) : jobs[q[i]].path # w

C8_LocalFailure ==
    \A j \in JobIds :
        jobs[j].exit \in {"nonzero", "nolaunch"} =>
            /\ jobs[j].st = "FailedLocal"
            /\ jobs[j].posts = 0
            /\ cur = j => (mainpc = "finally" /\ exc = "")
            /\ mainpc # "crashed"
            /\ mainpc # "stopped" => running

C8_Witness ==
    \E i, j \in JobIds :
        /\ i < j
        /\ jobs[i].exit = "nonzero"
        /\ jobs[i].st = "FailedLocal"
        /\ jobs[j].st \in Terminal

C10_FailuresStayInIteration ==
    /\ mainpc # "crashed"
    /\ exc \in {"", "KeyboardInterrupt"}
    /\ ( /\ \E j \in JobIds : jobs[j].st \in {"FailedLocal", "FailedDelivery"}
         /\ mainpc # "stopped" )
       => (running /\ mainpc \in LoopPcs)

C10_Witness ==
    \E i, j \in JobIds :
        /\ i < j
        /\ jobs[i].exit = "typeerror"
        /\ jobs[j].st \in Terminal

\* the exit paths of _transcribe_file that C11 names
NamedExits == {"zero", "nonzero", "nolaunch"}

\* C11: when the processing of a job ends on one of the named exit paths
\* (success, non-zero exit, launch failure) and premix had produced a
\* temporary mixed file for it, that file is gone.
C11_TempFileDeleted ==
    ( /\ mainpc = "finally"
      /\ processed_audio = "mixed"
      /\ jobs[cur].st \in Terminal
      /\ jobs[cur].exit \in NamedExits )
        => MixedFile(current_file) \notin tmpfiles

\* the channel count of the premix call being remembered
PremixChannels == Channels(premix.probe)

\* the premix call being remembered failed: no probe result, or the mixer
\* did not deliver
PremixFailed ==
    premix.probe = 0 \/ premix.mixer \in {"nofile", "nonzero", "raise"}

C15_PremixFailureKeepsJob ==
    (mainpc \in {"build", "transcribe"} /\ PremixFailed) =>
        /\ premix.probe = 0 => premix.mixer = "none"
        /\ processed_audio = "orig"
        /\ jobs[cur].st = "Processing"
        /\ exc = ""
        /\ mainpc = "build" => ENABLED TranscribeStart
        /\ mainpc = "transcribe" => jobs[cur].trans = 1

C15_Witness ==
    /\ mainpc = "transcribe"
    /\ premix.mixer = "nofile"
    /\ processed_audio = "orig"
    /\ jobs[cur].trans = 1
    /\ \E j \in JobIds : jobs[j].st \in Terminal

\* C16: with the webhook disabled or without a URL, a job whose
\* transcription succeeded ends as Delivered without any POST, and the loop
\* goes on.
C16_NoWebhookNoPost ==
    \A j \in JobIds :
        (config # "url" /\ jobs[j].exit = "zero" /\ jobs[j].st \in Terminal)
            => /\ jobs[j].st = "Delivered"
               /\ jobs[j].posts = 0
               /\ jobs[j].resp = "none"
               /\ mainpc # "crashed"
               /\ mainpc # "stopped" => running

C16_Witness ==
    /\ config = "nourl"
    /\ \E i, j \in JobIds :
          /\ i < j
          /\ jobs[i].exit = "zero"
          /\ jobs[i].st = "Delivered"
          /\ jobs[i].posts = 0
          /\ jobs[j].st \in Terminal

\* timers of path w that were started, on which cancel() was never called,
\* and whose callback has not returned
LiveTimers(w) ==
    {t \in TimerIds :
        /\ timers[t].path = w
        /\ timers[t].st \in {"waiting", "del", "check"}
        /\ ~timers[t].hit}

\* C12: no path has more than one live debounce timer.
C12_OneLiveTimerPerPath ==
    \A w \in Wavs : Cardinality(LiveTimers(w)) <= 1

\* entries of this run for path w, whoever added them
JobsOf(w) == {j \in JobIds : jobs[j].path = w}

\* C13: a path whose creation notifications all belong to one burst (each
\* less than debounce_seconds after the previous one) has at most one job in
\* this run, counting the scan's and the timers' enqueues together.
C13_OneJobPerSettledFile ==
    \A w \in Wavs : burst[w] => Cardinality(JobsOf(w)) <= 1

\* a stem that is not YYYY-MM-DD_HH-MM-SS: wrong number of parts or fields,
\* a field that is not a number, or a date or time that does not exist
Malformed(stem) ==
    \/ Len(stem) # 2
    \/ Len(stem[1]) # 3
    \/ Len(stem[2]) # 3
    \/ \E i \in 1..3 : stem[1][i].kind # "num" \/ stem[2][i].kind # "num"
    \/ ~InRange(stem[1], stem[2])

\* C17: the delivery of a job whose recording has a malformed stem -- with
\* the webhook enabled, a URL set, and transcript and audio file readable --
\* makes its POST, with the current UTC time as started_at.
C17_MalformedStemStillPosts ==
    \A j \in JobIds :
        ( /\ Malformed(stems[jobs[j].path])
          /\ config = "url"
          /\ jobs[j].exit = "zero"
          /\ jobs[j].st \in Terminal )
            => /\ jobs[j].posts = 1
               /\ jobs[j].started_at = "now"

\* C18: add is never kept waiting and never refused -- the scan's next file
\* can always be handled, and handling an unprocessed one makes the queue one
\* longer -- and get on an empty queue returns at once: the poll can always
\* be taken, leaves the queue and the log as they are, holds no job, and the
\* iteration goes to sleep.
C18_QueueNeverBlocks ==
    /\ [](\A w \in Wavs :
             (mainpc = "scan" /\ w \in scanTodo) => ENABLED ScanFile(w))
    /\ []((AtLoopTop /\ running /\ q = << >>) => ENABLED PollEmpty)
    /\ [][\A w \in Wavs :
             ( /\ mainpc = "scan"
               /\ w \in scanTodo
               /\ w \notin scanTodo'
               /\ Unprocessed(w) )
             => Len(q') = Len(q) + 1]_vars
    /\ [][( /\ AtLoopTop
            /\ running
            /\ q = << >>
            /\ mainpc' \notin {mainpc, "stopped"} )
          => /\ mainpc' = "sleep"
             /\ q' = q
             /\ jobs' = jobs
             /\ got' = got
             /\ ~processing'
             /\ cur' = 0]_vars

C18_Witness ==
    /\ run = 2
    /\ mainpc = "sleep"
    /\ got = << >>
    /\ q = << >>
    /\ \A w \in Wavs : prevCount[w] = 1

\* C19: a FailedLocal job stays as it is for the rest of the run, its path
\* gets no further job in that run and has no transcript; and after the next
\* start's scan every path that had a FailedLocal job in the previous run and
\* whose audio file the scan listed is in the queue.
C19_FailedLocalRedoneNextStart ==
    /\ [][\A j \in JobIds :
             (jobs[j].st = "FailedLocal" /\ run' = run)
                 => /\ jobs'[j] = jobs[j]
                    /\ JobsOf(jobs[j].path)' = JobsOf(jobs[j].path)]_vars
    /\ [](\A j \in JobIds :
             jobs[j].st = "FailedLocal"
                 => TranscriptFile(jobs[j].path) \notin transcripts)
    /\ []((run >= 2 /\ mainpc \notin {"start", "scan"})
             => \A w \in prevFailed \cap scanned : scanCount[w] >= 1)

C19_Witness ==
    /\ run = 2
    /\ mainpc = "poll"
    /\ \E w \in prevFailed \cap scanned :
          /\ scanCount[w] = 1
          /\ \E i \in 1..Len(q) : jobs[q[i]].path = w

\* stop() has returned: the loop is left and the observer thread is joined
Stopped == mainpc = "stopped" /\ hpc = "idle"

\* C20: once stop() has returned no timer is started; a job enqueued after
\* the loop was left stays Queued in that run; and when the next start's scan
\* visits the file of such a job, it enqueues it if its transcript is absent.
C20_LateJobsWaitForNextStart ==
    /\ [][(Stopped /\ run' = run) => Len(timers') = Len(timers)]_vars
    /\ [](\A j \in JobIds : jobs[j].late => jobs[j].st = "Queued")
    /\ [][\A w \in prevLate :
             ( /\ mainpc = "scan"
               /\ w \in scanTodo
               /\ w \notin scanTodo'
               /\ TranscriptFile(w) \notin transcripts )
             => /\ Len(q') = Len(q) + 1
                /\ jobs'[q'[Len(q')]].path = w]_vars

C20_Witness ==
    /\ run = 2
    /\ mainpc = "poll"
    /\ \E w \in prevLate \cap scanned :
          /\ TranscriptFile(w) \notin transcripts
          /\ \E i \in 1..Len(q) : jobs[q[i]].path = w

\* C21: while a process start has not finished its scan, no notification has
\* been handled and no timer exists; and the scan is not entered again in
\* the same run.
C21_ScanBeforeWatching ==
    /\ [](mainpc \in {"start", "scan"}
             => /\ hpc = "idle"
                /\ timers = << >>
                /\ \A w \in Wavs : notifs[w] = 0 /\ pending_files[w] = 0)
    /\ [][(run' = run /\ mainpc \notin {"start", "scan"})
             => /\ mainpc' \notin {"start", "scan"}
                /\ scanned' = scanned
                /\ scanCount' = scanCount]_vars

C21_Witness ==
    /\ run = 2
    /\ mainpc = "poll"
    /\ scanned # {}
    /\ \E i \in 1..Len(q) : jobs[q[i]].src = "scan"
    /\ \E t \in TimerIds : timers[t].st = "waiting"

\* ids in the queue
Waiting == {q[i] : i \in 1..Len(q)}

\* C22: within a run an entry goes from Queued to Processing and from
\* Processing to one of the three outcomes (or is abandoned where it is by
\* Ctrl+C); an entry with an outcome keeps it, is not in the queue and is not
\* the job in hand again; the queue holds exactly the Queued entries.
C22_JobStateMachine ==
    /\ [](\A j \in JobIds : j \in Waiting <=> jobs[j].st = "Queued")
    /\ [](\A j \in JobIds :
             jobs[j].st \in Terminal => (cur = j => mainpc = "finally"))
    /\ [][run' = run =>
             \A j \in JobIds :
                /\ jobs[j].st = "Queued"
                      => jobs'[j].st \in {"Queued", "Processing"}
                /\ jobs[j].st = "Processing"
                      => jobs'[j].st \in
                            {"Processing", "Interrupted"} \cup Terminal
                /\ jobs[j].st \in Terminal => jobs'[j] = jobs[j]]_vars

C22_Witness ==
    \E i, j \in JobIds :
        /\ jobs[i].st \in Terminal
        /\ jobs[j].st = "Processing"
        /\ jobs[i].path = jobs[j].path
        /\ mainpc = "deliver"

\* C23: when the loop has stopped, every job whose noScribe subprocess was
\* started has had its exit status observed.
C23_TranscriptionRunsToCompletion ==
    \A j \in JobIds :
        (jobs[j].trans >= 1 /\ mainpc = "stopped") => jobs[j].exit # "none"

\* C24: an entry of pending_files is the newest timer of its path, and a
\* timer callback that removes an entry removes its own.
C24_EntryOwnedByLatestTimer ==
    /\ [](\A w \in Wavs : pending_files[w] # 0 =>
             /\ timers[pending_files[w]].path = w
             /\ \A t \in TimerIds : timers[t].path = w => t <= pending_files[w])
    /\ [][\A t \in TimerIds :
             (timers[t].st = "del" /\ timers'[t].st = "check")
                 => pending_files[timers[t].path] = t]_vars

\* job numbers a run of SpecLive can use: the scan's and the notifications'
LiveJobs == 1..(Cardinality(Wavs) + StopMaxNotifs)

\* C25: while the process is not stopped, every job in the queue is
\* eventually dequeued and gets an outcome.
C25_EnqueuedJobsFinish ==
    \A j \in LiveJobs :
        (j \in JobIds /\ jobs[j].st = "Queued")
            ~> \/ mainpc \in {"stopped", "crashed"}
               \/ (j \in JobIds /\ jobs[j].st \in Terminal)
C25_Witness ==
    /\ mainpc \in LoopPcs
    /\ \E i, j \in JobIds :
        /\ i < j
        /\ jobs[i].src = "scan" /\ jobs[i].st \in Terminal
        /\ jobs[j].src = "timer" /\ jobs[j].st \in Terminal
        /\ jobs[j].posts >= 1

\* the run has nothing left to do: the loop is polling an empty queue, the
\* observer is running, no handler or timer is under way
Quiet ==
    /\ mainpc \in {"poll", "sleep"}
    /\ q = << >>
    /\ observing
    /\ hpc = "idle"
    /\ \A t \in TimerIds :
          timers[t].st \in {"cancelled", "dead", "queued", "dropped"}

\* C26: once the run has nothing left to do, every recording with content
\* and without transcript has been enqueued in this run.
C26_NoRecordingMissed ==
    Quiet => \A w \in Wavs :
                (FileReady(w) /\ Unprocessed(w)) => JobsOf(w) # {}

\* the transcript of a recording is on disk
Done(w) == TranscriptFile(w) \in transcripts

\* C27: a job that got past transcription has its transcript on disk,
\* transcripts stay, no step adds a job for a recording whose transcript
\* exists, and a job that ended as FailedDelivery is not posted again.
C27_TranscriptIsDoneMarker ==
    /\ [](\A j \in JobIds :
             jobs[j].st \in {"Delivered", "FailedDelivery"}
                 => Done(jobs[j].path))
    /\ [][transcripts \subseteq transcripts']_vars
    /\ [][\A w \in Wavs :
             Done(w) => Cardinality(JobsOf(w)') <= Cardinality(JobsOf(w))]_vars
    /\ [][\A j \in JobIds :
             (jobs[j].st = "FailedDelivery" /\ run' = run)
                 => jobs'[j].posts = jobs[j].posts]_vars
C27_Witness ==
    /\ run = 2
    /\ mainpc = "poll"
    /\ q = << >>
    /\ \E w, v \in Wavs :
          /\ w # v
          /\ prevCount[w] = 1 /\ Done(w) /\ w \in scanned /\ JobsOf(w) = {}
          /\ \E j \in JobsOf(v) :
                /\ jobs[j].st = "FailedDelivery"
                /\ jobs[j].posts = 1

\* a step is a call of start() / of stop()
StartCall == \E f \in Wavs, out \in StartOutcomes : RecorderStart(f, out)
StopCall == RecorderStop

====
